---- MODULE Spec2Model ----
(***************************************************************************)
(* Last Edit Location (Obsidian plugin), main.ts v0.1.4.                   *)
(*                                                                         *)
(* The plugin as a state machine: the settings object with its Position    *)
(* Table (settings.cursorPosition), the session restoration set, the       *)
(* debounce timer, the durable copy of the settings, the documents' front  *)
(* matter, the workspace's editor, and the asynchronous work in flight     *)
(* (identifier resolutions waiting on processFrontMatter, and restoration  *)
(* callbacks waiting on setTimeout).                                       *)
(*                                                                         *)
(* Strings (paths, identifiers, field names, the raw folder setting) are   *)
(* sequences of one-character strings, so that split, trim, startsWith and *)
(* the other string functions are computed character by character.        *)
(***************************************************************************)
EXTENDS Naturals, Sequences, FiniteSets, Bags, TLC

VARIABLES
    settings,       \* this.settings, cursorPosition included
    disk,           \* the settings object last handed to saveData
    hasBeenRestoredInCurrentSession,
    timeout,        \* debounce: TRUE while its timer is pending
    frontmatter,    \* per file: field name -> value
    cache,          \* metadataCache: last-known front matter per file
    activeFile,     \* the file of the active markdown view, or NoFile
    editorFile,     \* the file loaded in the editor
    cursor,         \* the editor's cursor
    lastLine,       \* per file: index of its last line
    tasks,          \* handlers suspended at await getUniqueIdentifier(...)
    timers,         \* restoration callbacks scheduled by setTimeout
    ready,          \* onLayoutReady has run
    nextUUID,       \* number of identifiers uuidv1 has produced
    nEvents,        \* host events delivered so far
    writes,         \* history: the metadata writes the plugin has made
    attempts,       \* history: firings of the restore callback, per identifier
    known,          \* history: per file and field, the identifier a creating resolve first returned
    done,           \* history: the files whose open-triggered restoration has fired
    lastOp,         \* history: the step just taken
    clock           \* the host's timer clock: the time now, when the debounce timer is due,
                    \* and (history) the times at which the debounced persister has flushed

vars == <<settings, disk, hasBeenRestoredInCurrentSession, timeout, frontmatter,
          cache, activeFile, editorFile, cursor, lastLine, tasks, timers, ready,
          nextUUID, nEvents, writes, attempts, known, done, lastOp, clock>>

-----------------------------------------------------------------------------
(* Bounds *)

MaxEvents == 3

\* The rule lists the matcher is asked about have up to this many lines.
MaxRules == 2

\* The timed specification of the persister follows the clock for this many half windows.
MaxTicks == 6


-----------------------------------------------------------------------------
(* Strings *)

S0 == <<>>

IsSpace(c) == c \in {" ", "\n", "\t"}

RECURSIVE TrimStart(_)
TrimStart(s) ==
    IF Len(s) > 0 /\ IsSpace(Head(s)) THEN TrimStart(Tail(s)) ELSE s

RECURSIVE TrimEnd(_)
TrimEnd(s) ==
    IF Len(s) > 0 /\ IsSpace(s[Len(s)]) THEN TrimEnd(SubSeq(s, 1, Len(s) - 1)) ELSE s

Trim(s) == TrimEnd(TrimStart(s))

RECURSIVE SplitFrom(_, _, _, _)
SplitFrom(s, sep, cur, acc) ==
    IF Len(s) = 0 THEN Append(acc, cur)
    ELSE IF Head(s) = sep THEN SplitFrom(Tail(s), sep, S0, Append(acc, cur))
    ELSE SplitFrom(Tail(s), sep, Append(cur, Head(s)), acc)

Split(s, sep) == SplitFrom(s, sep, S0, <<>>)

StartsWith(s, p) == Len(p) <= Len(s) /\ SubSeq(s, 1, Len(p)) = p

EndsWith(s, p) == Len(p) <= Len(s) /\ SubSeq(s, Len(s) - Len(p) + 1, Len(s)) = p

Includes(s, c) == \E i \in 1..Len(s) : s[i] = c

Substring(s, from) == SubSeq(s, from + 1, Len(s))

MapTrim(ss) == [i \in 1..Len(ss) |-> Trim(ss[i])]

NonEmpty(s) == Len(s) > 0

-----------------------------------------------------------------------------
(* The vault *)

NoFile == <<"?">>

RootNote == <<"a">>
FolderNote == <<"F", "/", "a">>

Files == {RootNote, FolderNote}

GeneratedField == <<"u">>
UserField == <<"t">>

FieldNames == {GeneratedField, UserField}

Sources == {"plugin-generated-UUID", "user-provided-field", "file-path"}

Undefined == [type |-> "undefined", str |-> S0]

\* The values YAML front matter gives a field: strings, numbers, booleans, null.
Str(s) == [type |-> "string", str |-> s]
Num(n) == [type |-> "number", num |-> n]
Bool(b) == [type |-> "boolean", bool |-> b]
Null == [type |-> "null"]

\* JavaScript's truthiness, as in `frontmatter[idName]` used as a condition
Truthy(v) ==
    CASE v.type = "undefined" -> FALSE
      [] v.type = "null" -> FALSE
      [] v.type = "string" -> v.str # S0
      [] v.type = "number" -> v.num # 0
      [] v.type = "boolean" -> v.bool

Digit(k) == <<"0", "1", "2", "3", "4", "5", "6", "7", "8", "9">>[k + 1]

RECURSIVE Decimal(_)
Decimal(n) == IF n < 10 THEN <<Digit(n)>> ELSE Append(Decimal(n \div 10), Digit(n % 10))

\* JavaScript's String(value)
String(v) ==
    CASE v.type = "undefined" -> <<"u", "n", "d", "e", "f", "i", "n", "e", "d">>
      [] v.type = "null" -> <<"n", "u", "l", "l">>
      [] v.type = "string" -> v.str
      [] v.type = "number" -> Decimal(v.num)
      [] v.type = "boolean" -> IF v.bool THEN <<"t", "r", "u", "e">>
                                         ELSE <<"f", "a", "l", "s", "e">>

uuidv1(k) == <<"#", Digit(k)>>

Top == [line |-> 0, ch |-> 0]

Bottom == [line |-> 1, ch |-> 1]

\* The places the user leaves the cursor at.
Positions == {Top, Bottom}

\* What the user can type into the 'Working folders' text area.
FolderInputs == {<<" ", "\n">>, <<" ", "F", "\n">>, <<"/", "*">>}

\* What a note's front matter can hold for a field: nothing, or a value the user wrote.
Values == {Undefined, Null, Str(S0), Str(<<"x">>), Num(0), Num(12), Bool(FALSE), Bool(TRUE)}

NoFrontmatter == [n \in FieldNames |-> Undefined]

\* A vault whose notes have no front matter, and one where FolderNote has the user's field.
Plain == [f \in Files |-> NoFrontmatter]
Titled == [Plain EXCEPT ![FolderNote][UserField] = Str(<<"x">>)]

-----------------------------------------------------------------------------
(* The plugin's functions *)

IncludedFolders(raw) == SelectSeq(MapTrim(Split(raw, "\n")), NonEmpty)

\* Mutant of MatchFrom: a subtree rule matches the folder's direct children only.
RECURSIVE MatchFromShallow(_, _, _)
MatchFromShallow(folders, i, path) ==
    IF i > Len(folders) THEN FALSE
    ELSE LET folder == folders[i]
             matched ==
                 IF folder = <<"/">> THEN ~Includes(path, "/")
                 ELSE IF EndsWith(folder, <<"/", "*">>)
                      THEN LET basePath == SubSeq(folder, 1, Len(folder) - 2)
                           IN  /\ StartsWith(path, basePath \o <<"/">>)
                               /\ ~Includes(Substring(path, Len(basePath) + 1), "/")
                      ELSE /\ StartsWith(path, folder \o <<"/">>)
                           /\ ~Includes(Substring(path, Len(folder) + 1), "/")
         IN  IF matched THEN TRUE ELSE MatchFromShallow(folders, i + 1, path)

\* Mutant of MatchFrom: the root rule matches the notes of the top-level folders too.
RECURSIVE MatchFromRootWide(_, _, _)
MatchFromRootWide(folders, i, path) ==
    IF i > Len(folders) THEN FALSE
    ELSE LET folder == folders[i]
             matched ==
                 IF folder = <<"/">>
                 THEN ~Includes(Substring(path, Len(Split(path, "/")[1]) + 1), "/")
                 ELSE IF EndsWith(folder, <<"/", "*">>)
                      THEN LET basePath == SubSeq(folder, 1, Len(folder) - 2)
                           IN  StartsWith(path, basePath \o <<"/">>)
                      ELSE /\ StartsWith(path, folder \o <<"/">>)
                           /\ ~Includes(Substring(path, Len(folder) + 1), "/")
         IN  IF matched THEN TRUE ELSE MatchFromRootWide(folders, i + 1, path)

\* Mutant of MatchFrom: an exact-folder rule matches the folder's whole subtree.
RECURSIVE MatchFromDeep(_, _, _)
MatchFromDeep(folders, i, path) ==
    IF i > Len(folders) THEN FALSE
    ELSE LET folder == folders[i]
             matched ==
                 IF folder = <<"/">> THEN ~Includes(path, "/")
                 ELSE IF EndsWith(folder, <<"/", "*">>)
                      THEN LET basePath == SubSeq(folder, 1, Len(folder) - 2)
                           IN  StartsWith(path, basePath \o <<"/">>)
                      ELSE StartsWith(path, folder \o <<"/">>)
         IN  IF matched THEN TRUE ELSE MatchFromDeep(folders, i + 1, path)

RECURSIVE MatchFrom(_, _, _)
MatchFrom(folders, i, path) ==
    IF i > Len(folders) THEN FALSE
    ELSE LET folder == folders[i]
             matched ==
                 IF folder = <<"/">> THEN ~Includes(path, "/")
                 ELSE IF EndsWith(folder, <<"/", "*">>)
                      THEN LET basePath == SubSeq(folder, 1, Len(folder) - 2)
                           IN  StartsWith(path, basePath \o <<"/">>)
                      ELSE /\ StartsWith(path, folder \o <<"/">>)
                           /\ ~Includes(Substring(path, Len(folder) + 1), "/")
         IN  IF matched THEN TRUE ELSE MatchFrom(folders, i + 1, path)

\* Mutant of isFileIncluded: only the first rule is looked at.
isFileIncludedFirstRule(path, raw) ==
    LET includedFolders == IncludedFolders(raw)
    IN  IF Len(includedFolders) = 0 THEN FALSE
        ELSE IF includedFolders[1] = <<"/", "*">> THEN TRUE
        ELSE MatchFrom(<<includedFolders[1]>>, 1, path)

\* Mutant of isFileIncluded: '/*' is a rule like the others, handled by the loop.
isFileIncludedNoWildcard(path, raw) ==
    LET includedFolders == IncludedFolders(raw)
    IN  IF Len(includedFolders) = 0 THEN FALSE
        ELSE MatchFrom(includedFolders, 1, path)

\* Mutant of isFileIncluded: an empty rule list includes every file.
isFileIncludedAlways(path, raw) ==
    LET includedFolders == IncludedFolders(raw)
    IN  IF Len(includedFolders) = 0 THEN TRUE
        ELSE IF \E i \in 1..Len(includedFolders) : includedFolders[i] = <<"/", "*">> THEN TRUE
        ELSE MatchFrom(includedFolders, 1, path)

isFileIncluded(path, raw) ==
    LET includedFolders == IncludedFolders(raw)
    IN  IF Len(includedFolders) = 0 THEN FALSE
        ELSE IF \E i \in 1..Len(includedFolders) : includedFolders[i] = <<"/", "*">> THEN TRUE
        ELSE MatchFrom(includedFolders, 1, path)

getCurrentIdName(s) ==
    IF s.identifierSource = "plugin-generated-UUID" THEN s.generatedIdName
    ELSE IF s.identifierSource = "user-provided-field" THEN s.userProvidedIdName
    ELSE S0

\* getUniqueIdentifier returns without touching the front matter.
ResolvesAtOnce(s) == s.identifierSource = "file-path" \/ getCurrentIdName(s) = S0

\* Mutant of IdAtOnce: the path is never the identifier.
IdAtOnceEmpty(file, s) == S0

\* Mutant of IdAtOnce: without a field name the path serves as the identifier.
IdAtOncePath(file, s) == file

IdAtOnce(file, s) == IF s.identifierSource = "file-path" THEN file ELSE S0

\* Mutants of FrontMatterCallback: creating whatever createIfMissing says; creating
\* under any strategy; and minting although the field is there.
FrontMatterCallbackIgnoringFlag(fm, idName, source, createIfMissing, k) ==
    IF Truthy(fm[idName])
    THEN [fm |-> fm, id |-> String(fm[idName]), wrote |-> FALSE]
    ELSE IF source = "plugin-generated-UUID"
         THEN [fm |-> [fm EXCEPT ![idName] = Str(uuidv1(k))], id |-> uuidv1(k), wrote |-> TRUE]
         ELSE [fm |-> fm, id |-> S0, wrote |-> FALSE]

FrontMatterCallbackAnySource(fm, idName, source, createIfMissing, k) ==
    IF Truthy(fm[idName])
    THEN [fm |-> fm, id |-> String(fm[idName]), wrote |-> FALSE]
    ELSE IF createIfMissing
         THEN [fm |-> [fm EXCEPT ![idName] = Str(uuidv1(k))], id |-> uuidv1(k), wrote |-> TRUE]
         ELSE [fm |-> fm, id |-> S0, wrote |-> FALSE]

FrontMatterCallbackReminting(fm, idName, source, createIfMissing, k) ==
    IF source = "plugin-generated-UUID" /\ createIfMissing
    THEN [fm |-> [fm EXCEPT ![idName] = Str(uuidv1(k))], id |-> uuidv1(k), wrote |-> TRUE]
    ELSE IF Truthy(fm[idName])
         THEN [fm |-> fm, id |-> String(fm[idName]), wrote |-> FALSE]
         ELSE [fm |-> fm, id |-> S0, wrote |-> FALSE]

\* Mutant of FrontMatterCallback: the transaction is not atomic; the callback is handed
\* the front matter as it was before another transaction's token was written.
FrontMatterCallbackStale(fm, idName, source, createIfMissing, k) ==
    IF Truthy(fm[idName]) /\ Head(String(fm[idName])) # "#"
    THEN [fm |-> fm, id |-> String(fm[idName]), wrote |-> FALSE]
    ELSE IF source = "plugin-generated-UUID" /\ createIfMissing
         THEN [fm |-> [fm EXCEPT ![idName] = Str(uuidv1(k))], id |-> uuidv1(k), wrote |-> TRUE]
         ELSE [fm |-> fm, id |-> S0, wrote |-> FALSE]

\* The callback handed to processFrontMatter: [fm, id, wrote].
FrontMatterCallback(fm, idName, source, createIfMissing, k) ==
    IF Truthy(fm[idName])
    THEN [fm |-> fm, id |-> String(fm[idName]), wrote |-> FALSE]
    ELSE IF source = "plugin-generated-UUID" /\ createIfMissing
         THEN [fm |-> [fm EXCEPT ![idName] = Str(uuidv1(k))], id |-> uuidv1(k), wrote |-> TRUE]
         ELSE [fm |-> fm, id |-> S0, wrote |-> FALSE]

\* Mutant of StorePosition: the table is replaced by the one new entry.
StorePositionAlone(table, id, cur) == [k \in {id} |-> [line |-> cur.line, ch |-> cur.ch]]

\* Mutant of StorePosition: an entry already there is kept.
StorePositionIfAbsent(table, id, cur) ==
    [k \in DOMAIN table \cup {id} |->
        IF k \in DOMAIN table THEN table[k] ELSE [line |-> cur.line, ch |-> cur.ch]]

\* this.settings.cursorPosition[uniqueIdentifier] = { line, ch }
StorePosition(table, id, cur) ==
    [k \in DOMAIN table \cup {id} |->
        IF k = id THEN [line |-> cur.line, ch |-> cur.ch] ELSE table[k]]

\* Mutant of ShouldRestore: the restoration set is not consulted.
ShouldRestoreUnchecked(id, restored) == id # S0

\* The gate of shouldRestoreCursor once the identifier is known.
ShouldRestore(id, restored) == id # S0 /\ id \notin restored

\* Mutant of RestoreMoves: the last line itself counts as out of range.
RestoreMovesStrict(table, id, file, last) ==
    /\ id \in DOMAIN table
    /\ file # NoFile
    /\ table[id].line < last[file]

\* The condition under which the restore callback calls editor.setCursor.
RestoreMoves(table, id, file, last) ==
    /\ id \in DOMAIN table
    /\ file # NoFile
    /\ table[id].line <= last[file]

\* Mutant of GoToMoves: the command honours the one-shot restoration gate.
GoToMovesOnce(table, id, last) ==
    /\ id # S0
    /\ id \notin hasBeenRestoredInCurrentSession
    /\ id \in DOMAIN table
    /\ table[id].line <= last

\* The condition under which the command calls editor.setCursor.
GoToMoves(table, id, last) ==
    /\ id # S0
    /\ id \in DOMAIN table
    /\ table[id].line <= last

\* Mutant of MarkRestored: marked only when the cursor was moved.
MarkRestoredIfMoved(restored, id, moved) == IF moved THEN restored \cup {id} ELSE restored

\* this.hasBeenRestoredInCurrentSession.add(uniqueIdentifier), whether the cursor moved or not
MarkRestored(restored, id, moved) == restored \cup {id}

\* Mutant of ValidIdentifiers: without a field name the included notes' paths are valid.
ValidIdentifiersOrPaths(s, c) ==
    LET idName == getCurrentIdName(s)
        included == { f \in Files : isFileIncluded(f, s.includedFolders) }
    IN  IF s.identifierSource = "file-path" \/ idName = S0 THEN included
        ELSE { String(c[f][idName]) : f \in { g \in included : Truthy(c[g][idName]) } }

\* Step 1 of the cleanup button: the identifiers of the included notes.
ValidIdentifiers(s, c) ==
    LET idName == getCurrentIdName(s)
        included == { f \in Files : isFileIncluded(f, s.includedFolders) }
    IN  IF s.identifierSource = "file-path" THEN included
        ELSE IF idName # S0
             THEN { String(c[f][idName]) : f \in { g \in included : Truthy(c[g][idName]) } }
             ELSE {}

\* Mutant of Restrict: nothing is deleted.
RestrictNothing(table, keep) == table

\* Step 2 of the cleanup button: the entries that stay.
Restrict(table, keep) == [k \in DOMAIN table \cap keep |-> table[k]]

\* Step 2 of the cleanup button: cleanedCount, one for each delete
CleanedCount(table, keep) == Cardinality({ k \in DOMAIN table : k \notin keep })

\* PLUGIN_CONSTANTS.DEBOUNCE_SAVE_DELAY, in milliseconds
DEBOUNCE_SAVE_DELAY == 2000

\* Mutant of CallNow: the function is called on every call, the timer pending or not.
CallNowAlways(immediate, pending) == immediate

\* debounce: callNow
CallNow(immediate, pending) == immediate /\ ~pending

-----------------------------------------------------------------------------
(* State *)

EmptyTable == [k \in {} |-> Top]

DEFAULT_SETTINGS ==
    [identifierSource |-> "plugin-generated-UUID",
     generatedIdName |-> S0,
     userProvidedIdName |-> S0,
     includedFolders |-> S0,
     restoringDelayTime |-> 50,
     cursorPosition |-> EmptyTable]

Configured == [DEFAULT_SETTINGS EXCEPT !.generatedIdName = GeneratedField,
                                       !.userProvidedIdName = UserField,
                                       !.includedFolders = <<"/", "*">>]

\* The states the plugin can be constructed in: what loadData returns (nothing, or the
\* settings an earlier session saved), the vault's front matter, the file that is
\* active when the workspace becomes ready, and the notes' lengths.
Scenarios ==
    { [settings |-> DEFAULT_SETTINGS, frontmatter |-> Plain, activeFile |-> NoFile, last |-> 1],
      [settings |-> Configured, frontmatter |-> Plain, activeFile |-> FolderNote, last |-> 1],
      [settings |-> [Configured EXCEPT !.identifierSource = "user-provided-field",
                                       !.includedFolders = <<" ", "F", "\n">>,
                                       !.cursorPosition = (<<"x">> :> Bottom)],
       frontmatter |-> Titled, activeFile |-> FolderNote, last |-> 1],
      [settings |-> [Configured EXCEPT !.identifierSource = "file-path",
                                       !.cursorPosition = (FolderNote :> Bottom)],
       frontmatter |-> Titled, activeFile |-> FolderNote, last |-> 0] }

\* lastOp: what the step just taken did.
Other(act) ==
    [act |-> act, file |-> NoFile, id |-> S0, moved |-> FALSE, field |-> S0,
     create |-> FALSE, wrote |-> FALSE, late |-> FALSE, cleanedCount |-> 0,
     rewritten |-> FALSE]

\* The entry the table has for id, if any (history: kept with a scheduled restoration
\* to tell whether the entry was written between the scheduling and the firing).
Entry(table, id) == IF id \in DOMAIN table THEN <<table[id]>> ELSE <<>>

\* The clock when the plugin is loaded; the main specification does not follow time.
Midnight == [now |-> 0, due |-> 0, flushes |-> <<>>]

Task(kind, file, idName, create) ==
    [kind |-> kind, file |-> file, idName |-> idName, createIfMissing |-> create,
     pc |-> "fm", id |-> S0, late |-> file \in done]

\* onload, whatever was loaded: nothing restored, nothing pending, durable storage as loaded
Loaded ==
    /\ disk = settings
    /\ hasBeenRestoredInCurrentSession = {}
    /\ timeout = FALSE
    /\ cache = frontmatter
    /\ editorFile = activeFile
    /\ cursor = Top
    /\ tasks = EmptyBag
    /\ timers = <<>>
    /\ ready = FALSE
    /\ nextUUID = 0
    /\ nEvents = 0
    /\ writes = {}
    /\ attempts = [k \in {} |-> 0]
    /\ known = [f \in Files |-> [n \in FieldNames |-> S0]]
    /\ done = {}
    /\ lastOp = Other("init")
    /\ clock = Midnight

Init ==
    /\ \E sc \in Scenarios :
        /\ settings = sc.settings
        /\ frontmatter = sc.frontmatter
        /\ activeFile = sc.activeFile
        /\ lastLine = [f \in Files |-> sc.last]
    /\ Loaded

-----------------------------------------------------------------------------
(* The handlers' parts *)

\* this.debouncedSave(): the persister built by debounce(saveSettings, 2000, true)
debouncedSave(s) ==
    /\ disk' = IF CallNow(TRUE, timeout) THEN s ELSE disk
    /\ timeout' = TRUE

\* Mutant of SaveLocation: the position is stored although the identifier is empty.
SaveLocationUnguarded(file, id, cur) ==
    /\ settings' = [settings EXCEPT !.cursorPosition = StorePosition(@, id, cur)]
    /\ debouncedSave(settings')
    /\ lastOp' = [Other("save") EXCEPT !.file = file, !.id = id]

\* saveLastEditLocation from the identifier on
SaveLocation(file, id, cur) ==
    IF id = S0
    THEN /\ UNCHANGED <<settings, disk, timeout>>
         /\ lastOp' = [Other("unsaved") EXCEPT !.file = file]
    ELSE /\ settings' = [settings EXCEPT !.cursorPosition = StorePosition(@, id, cur)]
         /\ debouncedSave(settings')
         /\ lastOp' = [Other("save") EXCEPT !.file = file, !.id = id]

\* the file-open handler from the identifier on: the gate, then restoreLastEditLocation
RestoreIfFirst(file, id, late) ==
    IF ShouldRestore(id, hasBeenRestoredInCurrentSession)
    THEN /\ timers' = Append(timers, [id |-> id, delay |-> settings.restoringDelayTime,
                                      file |-> file,
                                      seen |-> Entry(settings.cursorPosition, id)])
         /\ lastOp' = [Other("schedule") EXCEPT !.file = file, !.id = id, !.late = late]
    ELSE /\ UNCHANGED timers
         /\ lastOp' = [Other("skip") EXCEPT !.file = file, !.id = id]

\* the command's editorCallback from the identifier on
GoToLastEdit(id) ==
    LET moved == GoToMoves(settings.cursorPosition, id, lastLine[editorFile])
    IN  /\ cursor' = IF moved THEN settings.cursorPosition[id] ELSE cursor
        /\ lastOp' = [Other("goto") EXCEPT !.id = id, !.moved = moved]

\* shouldRestoreCursor up to the await, for the file-open handler and at startup
OpenHandler(file) ==
    IF file = NoFile \/ ~isFileIncluded(file, settings.includedFolders)
    THEN /\ UNCHANGED <<tasks, timers>>
         /\ lastOp' = [Other("open-closed") EXCEPT !.file = file]
    ELSE IF ResolvesAtOnce(settings)
    THEN /\ RestoreIfFirst(file, IdAtOnce(file, settings), file \in done)
         /\ UNCHANGED tasks
    ELSE /\ tasks' = tasks (+) SetToBag({Task("open", file, getCurrentIdName(settings), FALSE)})
         /\ UNCHANGED timers
         /\ lastOp' = Other("other")

-----------------------------------------------------------------------------
(* Events *)

\* onLayoutReady: the handlers are registered, the active file is handled
Startup ==
    /\ ~ready
    /\ ready' = TRUE
    /\ OpenHandler(activeFile)
    /\ UNCHANGED <<settings, disk, hasBeenRestoredInCurrentSession, timeout, frontmatter,
                   cache, activeFile, editorFile, cursor, lastLine, nextUUID, nEvents,
                   writes, attempts, known, done>>
    /\ UNCHANGED clock

\* 'file-open': the workspace focuses file (NoFile: no markdown view is active)
FileOpen(file) ==
    /\ ready
    /\ nEvents < MaxEvents
    /\ file # activeFile
    /\ nEvents' = nEvents + 1
    /\ activeFile' = file
    /\ editorFile' = IF file = NoFile THEN editorFile ELSE file
    /\ cursor' = IF file = NoFile \/ file = editorFile THEN cursor ELSE Top
    /\ OpenHandler(file)
    /\ UNCHANGED <<settings, disk, hasBeenRestoredInCurrentSession, timeout, frontmatter,
                   cache, lastLine, ready, nextUUID, writes, attempts, known, done>>
    /\ UNCHANGED clock

\* 'editor-change': the user has edited the active file and left the cursor at pos
EditorChange(pos) ==
    /\ ready
    /\ nEvents < MaxEvents
    /\ activeFile # NoFile
    /\ pos.line <= lastLine[activeFile]
    /\ nEvents' = nEvents + 1
    /\ cursor' = pos
    /\ IF ~isFileIncluded(activeFile, settings.includedFolders)
       THEN /\ UNCHANGED <<settings, disk, timeout, tasks>>
            /\ lastOp' = [Other("edit-closed") EXCEPT !.file = activeFile]
       ELSE IF ResolvesAtOnce(settings)
       THEN /\ SaveLocation(activeFile, IdAtOnce(activeFile, settings), pos)
            /\ UNCHANGED tasks
       ELSE /\ tasks' = tasks (+) SetToBag({Task("edit", activeFile, getCurrentIdName(settings), TRUE)})
            /\ UNCHANGED <<settings, disk, timeout>>
            /\ lastOp' = Other("other")
    /\ UNCHANGED <<hasBeenRestoredInCurrentSession, frontmatter, cache, activeFile,
                   editorFile, lastLine, timers, ready, nextUUID, writes, attempts,
                   known, done>>
    /\ UNCHANGED clock

\* the command 'Go to last edit location'
Command ==
    /\ ready
    /\ nEvents < MaxEvents
    /\ activeFile # NoFile
    /\ nEvents' = nEvents + 1
    /\ IF ~isFileIncluded(activeFile, settings.includedFolders)
       THEN /\ UNCHANGED <<cursor, tasks>>
            /\ lastOp' = [Other("command-closed") EXCEPT !.file = activeFile]
       ELSE IF ResolvesAtOnce(settings)
       THEN /\ GoToLastEdit(IdAtOnce(activeFile, settings))
            /\ UNCHANGED tasks
       ELSE /\ tasks' = tasks (+) SetToBag({Task("command", activeFile, getCurrentIdName(settings), FALSE)})
            /\ UNCHANGED cursor
            /\ lastOp' = Other("other")
    /\ UNCHANGED <<settings, disk, hasBeenRestoredInCurrentSession, timeout, frontmatter,
                   cache, activeFile, editorFile, lastLine, timers, ready, nextUUID,
                   writes, attempts, known, done>>
    /\ UNCHANGED clock

-----------------------------------------------------------------------------
(* Asynchronous steps *)

\* processFrontMatter runs the callback of a waiting getUniqueIdentifier
ProcessFrontMatter(t) ==
    /\ t \in BagToSet(tasks)
    /\ t.pc = "fm"
    /\ LET r == FrontMatterCallback(frontmatter[t.file], t.idName,
                                    settings.identifierSource, t.createIfMissing,
                                    nextUUID + 1)
       IN  /\ frontmatter' = [frontmatter EXCEPT ![t.file] = r.fm]
           /\ nextUUID' = IF r.wrote THEN nextUUID + 1 ELSE nextUUID
           /\ tasks' = (tasks (-) SetToBag({t})) (+) SetToBag({[t EXCEPT !.pc = "ret", !.id = r.id]})
           /\ writes' = IF r.wrote
                        THEN writes \cup {[file |-> t.file, field |-> t.idName, via |-> t.kind,
                                           source |-> settings.identifierSource]}
                        ELSE writes
           /\ known' = IF t.createIfMissing /\ r.id # S0 /\ known[t.file][t.idName] = S0
                       THEN [known EXCEPT ![t.file][t.idName] = r.id]
                       ELSE known
           /\ lastOp' = [Other("resolve") EXCEPT !.file = t.file, !.id = r.id,
                                                 !.field = t.idName,
                                                 !.create = t.createIfMissing,
                                                 !.wrote = r.wrote]
    /\ UNCHANGED <<settings, disk, hasBeenRestoredInCurrentSession, timeout, cache,
                   activeFile, editorFile, cursor, lastLine, timers, ready, nEvents,
                   attempts, done>>
    /\ UNCHANGED clock

\* the handler continues after await getUniqueIdentifier(...)
Resume(t) ==
    /\ t \in BagToSet(tasks)
    /\ t.pc = "ret"
    /\ tasks' = tasks (-) SetToBag({t})
    /\ CASE t.kind = "edit" ->
                /\ SaveLocation(t.file, t.id, cursor)
                /\ UNCHANGED <<timers, cursor>>
         [] t.kind = "open" ->
                /\ RestoreIfFirst(t.file, t.id, t.late)
                /\ UNCHANGED <<settings, disk, timeout, cursor>>
         [] t.kind = "command" ->
                /\ GoToLastEdit(t.id)
                /\ UNCHANGED <<settings, disk, timeout, timers>>
    /\ UNCHANGED <<hasBeenRestoredInCurrentSession, frontmatter, cache, activeFile,
                   editorFile, lastLine, ready, nextUUID, nEvents, writes, attempts,
                   known, done>>
    /\ UNCHANGED clock

\* Mutant of Remove: the callback that fires cancels the ones still pending.
RemoveAll(seq, j) == <<>>

\* the host drops the timer that has fired from its pending timers
Remove(seq, j) == SubSeq(seq, 1, j - 1) \o SubSeq(seq, j + 1, Len(seq))

Count(tally, id) == IF id \in DOMAIN tally THEN tally[id] ELSE 0

\* Mutant of RestoreFire: a restoration that finds its entry out of range deletes it
\* and saves the settings.
RestoreFirePruning(j) ==
    /\ j \in 1..Len(timers)
    /\ \A i \in 1..(j - 1) : timers[i].delay > timers[j].delay
    /\ LET id == timers[j].id
           moved == RestoreMoves(settings.cursorPosition, id, activeFile, lastLine)
           stale == id \in DOMAIN settings.cursorPosition /\ activeFile # NoFile /\ ~moved
       IN  /\ cursor' = IF moved THEN [line |-> settings.cursorPosition[id].line,
                                       ch |-> settings.cursorPosition[id].ch]
                        ELSE cursor
           /\ settings' = IF stale
                          THEN [settings EXCEPT !.cursorPosition =
                                    Restrict(@, DOMAIN settings.cursorPosition \ {id})]
                          ELSE settings
           /\ disk' = IF stale THEN settings' ELSE disk
           /\ hasBeenRestoredInCurrentSession' =
                  MarkRestored(hasBeenRestoredInCurrentSession, id, moved)
           /\ attempts' = [k \in DOMAIN attempts \cup {id} |->
                              IF k = id THEN Count(attempts, id) + 1 ELSE attempts[k]]
           /\ done' = done \cup {timers[j].file}
           /\ lastOp' = [Other("restore") EXCEPT
                             !.id = id, !.moved = moved, !.file = timers[j].file,
                             !.rewritten = Entry(settings.cursorPosition, id) # timers[j].seen]
    /\ timers' = Remove(timers, j)
    /\ UNCHANGED <<timeout, frontmatter, cache, activeFile, editorFile,
                   lastLine, tasks, ready, nextUUID, nEvents, writes, known>>
    /\ UNCHANGED clock

\* the callback restoreLastEditLocation handed to setTimeout fires; of two timers the
\* one set earlier with a delay no longer than the other's fires first
RestoreFire(j) ==
    /\ j \in 1..Len(timers)
    /\ \A i \in 1..(j - 1) : timers[i].delay > timers[j].delay
    /\ LET id == timers[j].id
           moved == RestoreMoves(settings.cursorPosition, id, activeFile, lastLine)
       IN  /\ cursor' = IF moved THEN [line |-> settings.cursorPosition[id].line,
                                       ch |-> settings.cursorPosition[id].ch]
                        ELSE cursor
           /\ hasBeenRestoredInCurrentSession' =
                  MarkRestored(hasBeenRestoredInCurrentSession, id, moved)
           /\ attempts' = [k \in DOMAIN attempts \cup {id} |->
                              IF k = id THEN Count(attempts, id) + 1 ELSE attempts[k]]
           /\ done' = done \cup {timers[j].file}
           /\ lastOp' = [Other("restore") EXCEPT
                             !.id = id, !.moved = moved, !.file = timers[j].file,
                             !.rewritten = Entry(settings.cursorPosition, id) # timers[j].seen]
    /\ timers' = Remove(timers, j)
    /\ UNCHANGED <<settings, disk, timeout, frontmatter, cache, activeFile, editorFile,
                   lastLine, tasks, ready, nextUUID, nEvents, writes, known>>
    /\ UNCHANGED clock

\* debounce: later() runs when the 2000 ms timer expires
DebounceLater ==
    /\ timeout
    /\ timeout' = FALSE
    /\ lastOp' = Other("other")
    /\ UNCHANGED <<settings, disk, hasBeenRestoredInCurrentSession, frontmatter, cache,
                   activeFile, editorFile, cursor, lastLine, tasks, timers, ready,
                   nextUUID, nEvents, writes, attempts, known, done>>
    /\ UNCHANGED clock

\* the host's metadata cache catches up with a file's front matter
CacheUpdate(file) ==
    /\ cache[file] # frontmatter[file]
    /\ cache' = [cache EXCEPT ![file] = frontmatter[file]]
    /\ lastOp' = Other("other")
    /\ UNCHANGED <<settings, disk, hasBeenRestoredInCurrentSession, timeout, frontmatter,
                   activeFile, editorFile, cursor, lastLine, tasks, timers, ready,
                   nextUUID, nEvents, writes, attempts, known, done>>
    /\ UNCHANGED clock

-----------------------------------------------------------------------------
(* The settings panel *)

\* Mutant of ChangeSettings: a change of a setting starts the Position Table afresh.
ChangeSettingsAfresh(s) ==
    /\ ready
    /\ nEvents < MaxEvents
    /\ nEvents' = nEvents + 1
    /\ settings' = [s EXCEPT !.cursorPosition = EmptyTable]
    /\ disk' = settings'
    /\ lastOp' = Other("setting")
    /\ UNCHANGED <<hasBeenRestoredInCurrentSession, timeout, frontmatter, cache,
                   activeFile, editorFile, cursor, lastLine, tasks, timers, ready,
                   nextUUID, writes, attempts, known, done>>
    /\ UNCHANGED clock

\* every onChange of the panel: assign, then await this.plugin.saveSettings()
ChangeSettings(s) ==
    /\ ready
    /\ nEvents < MaxEvents
    /\ nEvents' = nEvents + 1
    /\ settings' = s
    /\ disk' = s
    /\ lastOp' = Other("setting")
    /\ UNCHANGED <<hasBeenRestoredInCurrentSession, timeout, frontmatter, cache,
                   activeFile, editorFile, cursor, lastLine, tasks, timers, ready,
                   nextUUID, writes, attempts, known, done>>
    /\ UNCHANGED clock

SetIdentifierSource(value) ==
    /\ value # settings.identifierSource
    /\ ChangeSettings([settings EXCEPT !.identifierSource = value])

SetIncludedFolders(value) ==
    /\ value # settings.includedFolders
    /\ ChangeSettings([settings EXCEPT !.includedFolders = value])

\* the text fields of the two field names; each is disabled unless its strategy is the
\* selected one, and the value typed is trimmed
SetGeneratedIdName(value) ==
    /\ settings.identifierSource = "plugin-generated-UUID"
    /\ Trim(value) # settings.generatedIdName
    /\ ChangeSettings([settings EXCEPT !.generatedIdName = Trim(value)])

SetUserProvidedIdName(value) ==
    /\ settings.identifierSource = "user-provided-field"
    /\ Trim(value) # settings.userProvidedIdName
    /\ ChangeSettings([settings EXCEPT !.userProvidedIdName = Trim(value)])

\* the slider 'Cursor restore delay'
SetRestoringDelayTime(value) ==
    /\ value # settings.restoringDelayTime
    /\ ChangeSettings([settings EXCEPT !.restoringDelayTime = value])

\* the button 'Remove Now'
Cleanup ==
    /\ ready
    /\ nEvents < MaxEvents
    /\ nEvents' = nEvents + 1
    /\ settings' = [settings EXCEPT
                        !.cursorPosition = Restrict(@, ValidIdentifiers(settings, cache))]
    /\ disk' = settings'
    /\ lastOp' = [Other("cleanup") EXCEPT
                      !.cleanedCount = CleanedCount(settings.cursorPosition,
                                                    ValidIdentifiers(settings, cache))]
    /\ UNCHANGED <<hasBeenRestoredInCurrentSession, timeout, frontmatter, cache,
                   activeFile, editorFile, cursor, lastLine, tasks, timers, ready,
                   nextUUID, writes, attempts, known, done>>
    /\ UNCHANGED clock

-----------------------------------------------------------------------------

Next ==
    \/ Startup
    \/ \E file \in Files \cup {NoFile} : FileOpen(file)
    \/ \E pos \in Positions : EditorChange(pos)
    \/ Command
    \/ \E t \in BagToSet(tasks) : ProcessFrontMatter(t)
    \/ \E t \in BagToSet(tasks) : Resume(t)
    \/ \E j \in 1..Len(timers) : RestoreFire(j)
    \/ DebounceLater
    \/ \E file \in Files : CacheUpdate(file)
    \/ \E value \in Sources : SetIdentifierSource(value)
    \/ \E value \in FolderInputs : SetIncludedFolders(value)
    \/ Cleanup

Spec == Init /\ [][Next]_vars

\* The plugin loaded with the positions an earlier session saved, in a vault whose
\* note has the user's field.
ReturningInit ==
    /\ \E sc \in { x \in Scenarios : x.settings.cursorPosition # EmptyTable } :
        /\ settings = sc.settings
        /\ frontmatter = sc.frontmatter
        /\ activeFile = sc.activeFile
        /\ lastLine = [f \in Files |-> sc.last]
    /\ Loaded

\* The plugin of a returning user, with a host that runs the callbacks handed to
\* setTimeout.
TimerFairSpec ==
    /\ ReturningInit
    /\ [][Next]_vars
    /\ WF_vars(\E j \in 1..Len(timers) : RestoreFire(j))

-----------------------------------------------------------------------------
(* The settings panel at work while notes are opened: every control of the panel  *)
(* is used, the field names and the restore delay included.                       *)

\* What the user can type into a field-name text field.
FieldInputs == {<<" ">>, <<"u", " ">>, <<" ", "t">>}

\* Where the user can leave the slider (10 to 1000 ms in steps of 10).
DelayInputs == {10, 1000}

PanelNext ==
    \/ Startup
    \/ \E file \in Files \cup {NoFile} : FileOpen(file)
    \/ \E t \in BagToSet(tasks) : ProcessFrontMatter(t)
    \/ \E t \in BagToSet(tasks) : Resume(t)
    \/ \E j \in 1..Len(timers) : RestoreFire(j)
    \/ \E value \in Sources : SetIdentifierSource(value)
    \/ \E value \in FieldInputs : SetGeneratedIdName(value)
    \/ \E value \in FieldInputs : SetUserProvidedIdName(value)
    \/ \E value \in FolderInputs : SetIncludedFolders(value)
    \/ \E value \in DelayInputs : SetRestoringDelayTime(value)
    \/ Cleanup

PanelSpec == ReturningInit /\ [][PanelNext]_vars

-----------------------------------------------------------------------------
(* The plugin with a host whose metadata transactions can fail (front matter the *)
(* host cannot parse, a file it cannot write).                                   *)

\* processFrontMatter rejects: the await in getUniqueIdentifier throws, nothing catches
\* it there or in saveLastEditLocation, shouldRestoreCursor or the handlers, so the
\* handler ends with the error and the code after its await never runs
ProcessFrontMatterRejects(t) ==
    /\ t \in BagToSet(tasks)
    /\ t.pc = "fm"
    /\ tasks' = tasks (-) SetToBag({t})
    /\ lastOp' = [Other("rejected") EXCEPT !.file = t.file, !.field = t.idName,
                                           !.create = t.createIfMissing]
    /\ UNCHANGED <<settings, disk, hasBeenRestoredInCurrentSession, timeout, frontmatter,
                   cache, activeFile, editorFile, cursor, lastLine, timers, ready,
                   nextUUID, nEvents, writes, attempts, known, done, clock>>

HostFailureNext ==
    \/ Next
    \/ \E t \in BagToSet(tasks) : ProcessFrontMatterRejects(t)

HostFailureSpec == Init /\ [][HostFailureNext]_vars

-----------------------------------------------------------------------------
(* The debounced persister against the clock: positions are stored (file-path     *)
(* strategy, so each edit stores at once) while time passes in half windows, and  *)
(* the settings panel is closed now and then.                                     *)

HalfWindow == DEBOUNCE_SAVE_DELAY \div 2

DebounceInit ==
    /\ settings = [Configured EXCEPT !.identifierSource = "file-path"]
    /\ frontmatter = Plain
    /\ activeFile = FolderNote
    /\ lastLine = [f \in Files |-> 1]
    /\ Loaded

\* saveLastEditLocation stores pos at the time now: debouncedSave calls saveSettings if
\* no timer is pending, and in either case sets the timer anew, due a full wait from now
TimedSave(pos) ==
    /\ cursor' = pos
    /\ SaveLocation(activeFile, IdAtOnce(activeFile, settings), pos)
    /\ clock' = [clock EXCEPT !.due = clock.now + DEBOUNCE_SAVE_DELAY,
                              !.flushes = IF CallNow(TRUE, timeout)
                                          THEN Append(@, clock.now) ELSE @]
    /\ UNCHANGED <<hasBeenRestoredInCurrentSession, frontmatter, cache, activeFile,
                   editorFile, lastLine, tasks, timers, ready, nextUUID, nEvents, writes,
                   attempts, known, done>>

\* time passes; a timer that is due may still be waiting for its turn
Tick ==
    /\ clock.now < MaxTicks * HalfWindow
    /\ clock' = [clock EXCEPT !.now = @ + HalfWindow]
    /\ lastOp' = Other("other")
    /\ UNCHANGED <<settings, disk, hasBeenRestoredInCurrentSession, timeout, frontmatter,
                   cache, activeFile, editorFile, cursor, lastLine, tasks, timers, ready,
                   nextUUID, nEvents, writes, attempts, known, done>>

\* setTimeout(later, wait) runs later no sooner than wait after it was set
TimedLater ==
    /\ clock.now >= clock.due
    /\ DebounceLater

\* the settings panel is closed: LastEditLocationSettingTab.hide(), whose body is empty
Hide ==
    /\ lastOp' = Other("hide")
    /\ UNCHANGED <<settings, disk, hasBeenRestoredInCurrentSession, timeout, frontmatter,
                   cache, activeFile, editorFile, cursor, lastLine, tasks, timers, ready,
                   nextUUID, nEvents, writes, attempts, known, done, clock>>

DebounceNext ==
    \/ \E pos \in Positions : TimedSave(pos)
    \/ Tick
    \/ TimedLater
    \/ Hide

DebounceSpec == DebounceInit /\ [][DebounceNext]_vars

\* The same, with the host's event loop doing its part: time passes, and a timer that
\* is due is run.
DebounceFairSpec == DebounceSpec /\ WF_vars(Tick) /\ WF_vars(TimedLater)

-----------------------------------------------------------------------------
(* isFileIncluded on its own: the function applied to paths at the root, in a     *)
(* folder, in a subfolder and in a sibling folder, under rule lists typed into    *)
(* the 'Working folders' text area.                                               *)

DeepNote == <<"F", "/", "s", "/", "a">>
SiblingNote == <<"F", "2", "/", "a">>

Paths == {RootNote, FolderNote, DeepNote, SiblingNote}

\* The lines a user types: blank ones, the wildcard, the root, folders exact and deep.
RuleLines ==
    { S0, <<" ">>, <<"/", "*">>, <<"/">>, <<"F">>, <<" ", "F", " ">>, <<"F", "/", "*">>,
      <<"F", "2">>, <<"F", "/", "s">> }

RECURSIVE Join(_)
Join(lines) ==
    IF Len(lines) = 1 THEN lines[1] ELSE lines[1] \o <<"\n">> \o Join(Tail(lines))

RuleTexts == { Join(ls) : ls \in UNION { [1..n -> RuleLines] : n \in 1..MaxRules } }

MatcherInit ==
    /\ \E raw \in RuleTexts : settings = [Configured EXCEPT !.includedFolders = raw]
    /\ frontmatter = Plain
    /\ activeFile = NoFile
    /\ lastLine = [f \in Files |-> 1]
    /\ Loaded

\* this.isFileIncluded(file), for a file with the given path
IsFileIncluded(path) ==
    /\ lastOp' = [act |-> "isFileIncluded", file |-> path,
                  result |-> isFileIncluded(path, settings.includedFolders)]
    /\ UNCHANGED <<settings, disk, hasBeenRestoredInCurrentSession, timeout, frontmatter,
                   cache, activeFile, editorFile, cursor, lastLine, tasks, timers, ready,
                   nextUUID, nEvents, writes, attempts, known, done, clock>>

MatcherNext == \E path \in Paths : IsFileIncluded(path)

MatcherSpec == MatcherInit /\ [][MatcherNext]_vars

-----------------------------------------------------------------------------
(* getUniqueIdentifier on its own: the function applied to notes whose front matter *)
(* holds any of Values, under each strategy.                                        *)

ResolverInit ==
    /\ \E source \in Sources : settings = [Configured EXCEPT !.identifierSource = source]
    /\ frontmatter \in [Files -> [FieldNames -> Values]]
    /\ activeFile = NoFile
    /\ lastLine = [f \in Files |-> 1]
    /\ Loaded

\* await this.getUniqueIdentifier(file, createIfMissing), from call to return
GetUniqueIdentifier(file, createIfMissing) ==
    LET idName == getCurrentIdName(settings)
    IN  /\ IF ResolvesAtOnce(settings)
           THEN /\ UNCHANGED <<frontmatter, nextUUID, writes>>
                /\ lastOp' = [Other("resolve") EXCEPT !.file = file,
                                                      !.id = IdAtOnce(file, settings),
                                                      !.field = idName,
                                                      !.create = createIfMissing]
           ELSE LET r == FrontMatterCallback(frontmatter[file], idName,
                                             settings.identifierSource, createIfMissing,
                                             nextUUID + 1)
                IN  /\ frontmatter' = [frontmatter EXCEPT ![file] = r.fm]
                    /\ nextUUID' = IF r.wrote THEN nextUUID + 1 ELSE nextUUID
                    /\ writes' = IF r.wrote
                                 THEN writes \cup {[file |-> file, field |-> idName,
                                                    via |-> "call",
                                                    source |-> settings.identifierSource]}
                                 ELSE writes
                    /\ lastOp' = [Other("resolve") EXCEPT !.file = file, !.id = r.id,
                                                          !.field = idName,
                                                          !.create = createIfMissing,
                                                          !.wrote = r.wrote]
        /\ UNCHANGED <<settings, disk, hasBeenRestoredInCurrentSession, timeout, cache,
                       activeFile, editorFile, cursor, lastLine, tasks, timers, ready,
                       nEvents, attempts, known, done, clock>>

ResolverNext == \E file \in Files, createIfMissing \in BOOLEAN :
                    GetUniqueIdentifier(file, createIfMissing)

ResolverSpec == ResolverInit /\ [][ResolverNext]_vars

-----------------------------------------------------------------------------
(* The earlier version of the plugin (LastEditLinePlugin), which has a master     *)
(* switch, settings.isPluginEnabled: its open and edit handlers, under either     *)
(* position of the switch.                                                        *)

\* The earlier version's isFileIncluded: the rule that includes every note is '*'.
legacyIsFileIncluded(path, raw) ==
    LET includedFolders == IncludedFolders(raw)
    IN  IF Len(includedFolders) = 0 THEN FALSE
        ELSE IF \E i \in 1..Len(includedFolders) : includedFolders[i] = <<"*">> THEN TRUE
        ELSE MatchFrom(includedFolders, 1, path)

\* The earlier version's getCurrentIdName: two strategies.
legacyGetCurrentIdName(s) ==
    IF s.identifierSource = "plugin-generated-UUID" THEN s.generatedIdName
    ELSE s.userProvidedIdName

\* The callback ensureFileUUID hands to processFrontMatter: [fm, id, wrote].
ensureFileUUIDCallback(fm, idName, s, k) ==
    IF Truthy(fm[idName])
    THEN [fm |-> fm, id |-> String(fm[idName]), wrote |-> FALSE]
    ELSE IF s.identifierSource = "plugin-generated-UUID"
         THEN [fm |-> [fm EXCEPT ![idName] = Str(uuidv1(k))], id |-> uuidv1(k), wrote |-> TRUE]
         ELSE [fm |-> fm, id |-> S0, wrote |-> FALSE]

\* The earlier version's settings with both field names set and every note included.
LegacyConfigured(enabled, source) ==
    [isPluginEnabled |-> enabled,
     identifierSource |-> source,
     generatedIdName |-> GeneratedField,
     userProvidedIdName |-> UserField,
     includedFolders |-> <<"*">>,
     cursorPosition |-> (<<"x">> :> Bottom)]

\* onload of the earlier version: the switch on or off, either strategy, a position
\* saved by an earlier session under the user's field
LegacyInit ==
    /\ \E enabled \in BOOLEAN, source \in {"plugin-generated-UUID", "user-provided-field"} :
            settings = LegacyConfigured(enabled, source)
    /\ frontmatter \in {Plain, Titled}
    /\ activeFile = FolderNote
    /\ lastLine = [f \in Files |-> 1]
    /\ Loaded

LegacyTask(kind, file, idName) ==
    [kind |-> kind, file |-> file, idName |-> idName, pc |-> "fm", id |-> S0]

\* handleFileOpen up to its await
handleFileOpen(file) ==
    IF file = NoFile \/ legacyGetCurrentIdName(settings) = S0
    THEN /\ UNCHANGED tasks
         /\ lastOp' = [Other("open-closed") EXCEPT !.file = file]
    ELSE /\ tasks' = tasks (+) SetToBag({LegacyTask("open", file, legacyGetCurrentIdName(settings))})
         /\ lastOp' = Other("other")

\* onLayoutReady of the earlier version
LegacyStartup ==
    /\ ~ready
    /\ ready' = TRUE
    /\ handleFileOpen(activeFile)
    /\ UNCHANGED <<settings, disk, hasBeenRestoredInCurrentSession, timeout, frontmatter,
                   cache, activeFile, editorFile, cursor, lastLine, timers, nextUUID,
                   nEvents, writes, attempts, known, done, clock>>

\* 'file-open' in the earlier version
LegacyFileOpen(file) ==
    /\ ready
    /\ nEvents < MaxEvents
    /\ file # activeFile
    /\ nEvents' = nEvents + 1
    /\ activeFile' = file
    /\ editorFile' = IF file = NoFile THEN editorFile ELSE file
    /\ cursor' = IF file = NoFile \/ file = editorFile THEN cursor ELSE Top
    /\ handleFileOpen(file)
    /\ UNCHANGED <<settings, disk, hasBeenRestoredInCurrentSession, timeout, frontmatter,
                   cache, lastLine, timers, ready, nextUUID, writes, attempts, known,
                   done, clock>>

\* 'editor-change' in the earlier version: saveCursorPosition up to its await
LegacyEditorChange(pos) ==
    /\ ready
    /\ nEvents < MaxEvents
    /\ activeFile # NoFile
    /\ pos.line <= lastLine[activeFile]
    /\ nEvents' = nEvents + 1
    /\ cursor' = pos
    /\ IF ~settings.isPluginEnabled
          \/ ~legacyIsFileIncluded(activeFile, settings.includedFolders)
       THEN /\ UNCHANGED tasks
            /\ lastOp' = [Other("edit-closed") EXCEPT !.file = activeFile]
       ELSE IF legacyGetCurrentIdName(settings) = S0
       THEN /\ UNCHANGED tasks
            /\ lastOp' = [Other("unsaved") EXCEPT !.file = activeFile]
       ELSE /\ tasks' = tasks (+) SetToBag({LegacyTask("edit", activeFile,
                                                       legacyGetCurrentIdName(settings))})
            /\ lastOp' = Other("other")
    /\ UNCHANGED <<settings, disk, hasBeenRestoredInCurrentSession, timeout, frontmatter,
                   cache, activeFile, editorFile, lastLine, timers, ready, nextUUID,
                   writes, attempts, known, done, clock>>

\* processFrontMatter runs the callback of a waiting ensureFileUUID
LegacyProcessFrontMatter(t) ==
    /\ t \in BagToSet(tasks)
    /\ t.pc = "fm"
    /\ LET r == ensureFileUUIDCallback(frontmatter[t.file], t.idName, settings, nextUUID + 1)
       IN  /\ frontmatter' = [frontmatter EXCEPT ![t.file] = r.fm]
           /\ nextUUID' = IF r.wrote THEN nextUUID + 1 ELSE nextUUID
           /\ tasks' = (tasks (-) SetToBag({t})) (+) SetToBag({[t EXCEPT !.pc = "ret", !.id = r.id]})
           /\ writes' = IF r.wrote
                        THEN writes \cup {[file |-> t.file, field |-> t.idName, via |-> t.kind,
                                           source |-> settings.identifierSource]}
                        ELSE writes
           /\ lastOp' = [Other("resolve") EXCEPT !.file = t.file, !.id = r.id,
                                                 !.field = t.idName, !.wrote = r.wrote]
    /\ UNCHANGED <<settings, disk, hasBeenRestoredInCurrentSession, timeout, cache,
                   activeFile, editorFile, cursor, lastLine, timers, ready, nEvents,
                   attempts, known, done, clock>>

\* saveCursorPosition, handleFileOpen or restoreCursorPosition continues after
\* await this.ensureFileUUID(file)
LegacyResume(t) ==
    /\ t \in BagToSet(tasks)
    /\ t.pc = "ret"
    /\ tasks' = tasks (-) SetToBag({t})
    /\ CASE t.kind = "edit" ->
                /\ IF t.id = S0
                   THEN /\ UNCHANGED <<settings, disk, timeout>>
                        /\ lastOp' = [Other("unsaved") EXCEPT !.file = t.file]
                   ELSE /\ settings' = [settings EXCEPT
                                            !.cursorPosition = StorePosition(@, t.id, cursor)]
                        /\ debouncedSave(settings')
                        /\ lastOp' = [Other("save") EXCEPT !.file = t.file, !.id = t.id]
                /\ UNCHANGED <<timers, cursor>>
         [] t.kind = "open" ->
                /\ IF t.id # S0 /\ t.id \notin hasBeenRestoredInCurrentSession
                   THEN /\ timers' = Append(timers, [id |-> t.id, delay |-> 10, file |-> t.file,
                                                     seen |-> Entry(settings.cursorPosition, t.id)])
                        /\ lastOp' = [Other("schedule") EXCEPT !.file = t.file, !.id = t.id]
                   ELSE /\ UNCHANGED timers
                        /\ lastOp' = [Other("skip") EXCEPT !.file = t.file, !.id = t.id]
                /\ UNCHANGED <<settings, disk, timeout, cursor>>
         [] t.kind = "restore" ->
                /\ LET moved == t.id # S0 /\ RestoreMoves(settings.cursorPosition, t.id,
                                                          activeFile, lastLine)
                   IN  /\ cursor' = IF moved THEN [line |-> settings.cursorPosition[t.id].line,
                                                   ch |-> settings.cursorPosition[t.id].ch]
                                    ELSE cursor
                       /\ lastOp' = [Other("restore") EXCEPT !.file = t.file, !.id = t.id,
                                                             !.moved = moved]
                /\ UNCHANGED <<settings, disk, timeout, timers>>
    /\ UNCHANGED <<hasBeenRestoredInCurrentSession, frontmatter, cache, activeFile,
                   editorFile, lastLine, ready, nextUUID, nEvents, writes, attempts,
                   known, done, clock>>

\* the callback handleFileOpen handed to setTimeout fires: restoreCursorPosition(file)
\* runs up to its await, and the identifier is added to restoredInCurrentSession
LegacyRestoreFire(j) ==
    /\ j \in 1..Len(timers)
    /\ \A i \in 1..(j - 1) : timers[i].delay > timers[j].delay
    /\ IF ~settings.isPluginEnabled
          \/ ~legacyIsFileIncluded(timers[j].file, settings.includedFolders)
          \/ legacyGetCurrentIdName(settings) = S0
       THEN /\ UNCHANGED tasks
            /\ lastOp' = [Other("restore-closed") EXCEPT !.file = timers[j].file,
                                                         !.id = timers[j].id]
       ELSE /\ tasks' = tasks (+) SetToBag({LegacyTask("restore", timers[j].file,
                                                       legacyGetCurrentIdName(settings))})
            /\ lastOp' = Other("other")
    /\ hasBeenRestoredInCurrentSession' = hasBeenRestoredInCurrentSession \cup {timers[j].id}
    /\ timers' = Remove(timers, j)
    /\ UNCHANGED <<settings, disk, timeout, frontmatter, cache, activeFile, editorFile,
                   cursor, lastLine, ready, nextUUID, nEvents, writes, attempts, known,
                   done, clock>>

LegacyNext ==
    \/ LegacyStartup
    \/ \E file \in Files \cup {NoFile} : LegacyFileOpen(file)
    \/ \E pos \in Positions : LegacyEditorChange(pos)
    \/ \E t \in BagToSet(tasks) : LegacyProcessFrontMatter(t)
    \/ \E t \in BagToSet(tasks) : LegacyResume(t)
    \/ \E j \in 1..Len(timers) : LegacyRestoreFire(j)
    \/ DebounceLater

LegacySpec == LegacyInit /\ [][LegacyNext]_vars

-----------------------------------------------------------------------------
(* Claims *)

\* the Position Table
table == settings.cursorPosition

\* C1: for every identifier, the deferred restore callback fires at most once in a
\* process lifetime, also when the document is opened again before an earlier
\* scheduled restoration has fired.
C1_AtMostOneAttempt == \A id \in DOMAIN attempts : attempts[id] <= 1

\* C2: every write the plugin makes to a document's metadata comes from the edit path
\* (a resolution started by saveLastEditLocation), so a run without edit events
\* writes none; and a resolve with createIfMissing=false on a document that lacks the
\* field returns empty and writes nothing.
C2_OnlyEditsWriteMetadata ==
    /\ \A w \in writes : w.via = "edit"
    /\ (lastOp.act = "resolve" /\ ~lastOp.create
            /\ ~Truthy(frontmatter[lastOp.file][lastOp.field]))
       => (lastOp.id = S0 /\ ~lastOp.wrote)

\* C2 witness: under the generated strategy an open (or command) resolution of a note
\* that lacks the field has returned empty.
C2_Witness ==
    /\ lastOp.act = "resolve"
    /\ ~lastOp.create
    /\ lastOp.id = S0
    /\ settings.identifierSource = "plugin-generated-UUID"
    /\ writes = {}

\* C3: whenever saveLastEditLocation stores a position, the edited document is
\* included by the rules in force at the moment of the write.
C3_SavedOnlyWhileIncluded ==
    lastOp.act = "save" => isFileIncluded(lastOp.file, settings.includedFolders)

RulesEmpty == IncludedFolders(settings.includedFolders) = <<>>

\* an open event, the startup handling, an edit event or a command is delivered
HandlerStep ==
    /\ nEvents' # nEvents \/ ready' # ready
    /\ lastOp'.act \notin {"setting", "cleanup"}

\* C4: while the rule list is empty (the raw setting is empty or blank), isFileIncluded
\* is false for every path, and an open or edit event delivered then changes neither
\* the Position Table, the restoration set, any metadata nor, by the plugin, a cursor,
\* and leaves nothing pending that would.
C4_EmptyRulesInactive ==
    /\ [](RulesEmpty => \A f \in Files : ~isFileIncluded(f, settings.includedFolders))
    /\ [][(RulesEmpty /\ HandlerStep) =>
            /\ UNCHANGED <<settings, disk, hasBeenRestoredInCurrentSession, frontmatter,
                           tasks, timers>>
            /\ ~lastOp'.moved]_vars

\* C4 witness: an edit of the root-level note was delivered while the rules are blank.
C4_Witness ==
    /\ RulesEmpty
    /\ lastOp.act = "edit-closed"
    /\ lastOp.file = RootNote
    /\ settings.includedFolders # S0

\* C5: when an edit's save completes, the Position Table maps the identifier to exactly
\* the editor's cursor (line and ch), whatever entry was there before; and an entry
\* changes only by such a save of its own identifier, so it is the one the last
\* completed edit wrote.
C5_SaveOverwrites ==
    /\ [](lastOp.act = "save" =>
            /\ lastOp.id \in DOMAIN table
            /\ table[lastOp.id] = cursor)
    /\ [][\A id \in DOMAIN table \cap DOMAIN table' :
            table'[id] # table[id] => (lastOp'.act = "save" /\ lastOp'.id = id)]_vars

\* C5 witness: a save has replaced an entry that durable storage still holds with
\* another position.
C5_Witness ==
    /\ lastOp.act = "save"
    /\ lastOp.id \in DOMAIN disk.cursorPosition
    /\ disk.cursorPosition[lastOp.id] # table[lastOp.id]

\* C6: when a scheduled restoration fires, the cursor is moved iff the table has an
\* entry for the identifier, a markdown view is active and the entry's line is not
\* beyond the editor's last line; when it moves it is set to exactly the stored position.
C6_RestoreMovesIffValid ==
    lastOp.act = "restore" =>
        /\ lastOp.moved <=> /\ lastOp.id \in DOMAIN table
                            /\ activeFile # NoFile
                            /\ table[lastOp.id].line <= lastLine[activeFile]
        /\ lastOp.moved => cursor = table[lastOp.id]

\* C6 witness: the stored line lies beyond the document's last line and the
\* restoration did not move the cursor.
C6_Witness ==
    /\ lastOp.act = "restore"
    /\ ~lastOp.moved
    /\ lastOp.id \in DOMAIN table
    /\ activeFile # NoFile
    /\ table[lastOp.id].line > lastLine[activeFile]

C8_MembershipGate ==
    /\ hasBeenRestoredInCurrentSession = {}
    /\ [](/\ lastOp.act = "schedule" =>
                lastOp.id # S0 /\ lastOp.id \notin hasBeenRestoredInCurrentSession
          /\ lastOp.act = "skip" =>
                lastOp.id = S0 \/ lastOp.id \in hasBeenRestoredInCurrentSession)
    /\ [][/\ hasBeenRestoredInCurrentSession \subseteq hasBeenRestoredInCurrentSession'
          /\ hasBeenRestoredInCurrentSession' =
                IF lastOp'.act = "restore"
                THEN hasBeenRestoredInCurrentSession \cup {lastOp'.id}
                ELSE hasBeenRestoredInCurrentSession]_vars

\* C8 witness: with one identifier marked, the gate has let a different one through.
C8_Witness ==
    /\ lastOp.act = "schedule"
    /\ hasBeenRestoredInCurrentSession # {}

\* C9: once a resolve with createIfMissing=true has returned an identifier for a
\* document's field, every later resolve of that field of that document returns the
\* same identifier, whatever its createIfMissing.
C9_IdentifierStable ==
    (lastOp.act = "resolve" /\ known[lastOp.file][lastOp.field] # S0)
        => lastOp.id = known[lastOp.file][lastOp.field]

\* C9 witness: a resolve with createIfMissing=false has returned the identifier an
\* earlier edit minted.
C9_Witness ==
    /\ lastOp.act = "resolve"
    /\ ~lastOp.create
    /\ lastOp.id # S0
    /\ lastOp.id = known[lastOp.file][lastOp.field]
    /\ \E w \in writes : w.file = lastOp.file /\ w.field = lastOp.field

\* C10: no metadata write is made while the strategy is user-field, whatever
\* createIfMissing is and whether or not the field is present.
C10_UserFieldNeverWrites ==
    /\ \A w \in writes : w.source # "user-provided-field"
    /\ (lastOp.act = "resolve" /\ settings.identifierSource = "user-provided-field")
           => ~lastOp.wrote

\* C10 witness: under the user-field strategy an edit's resolve (createIfMissing=true)
\* of a note without the field has returned empty and written nothing.
C10_Witness ==
    /\ lastOp.act = "resolve"
    /\ lastOp.create
    /\ lastOp.id = S0
    /\ settings.identifierSource = "user-provided-field"
    /\ ~Truthy(frontmatter[lastOp.file][lastOp.field])
    /\ writes = {}

\* C11: under the user-field strategy with a non-empty field name, a resolve of a
\* document whose metadata contains the field returns the field's value coerced to a
\* string, whatever the value is, and returns empty only when the field is absent.
C11_UserFieldCoerced ==
    (/\ lastOp.act = "resolve"
     /\ settings.identifierSource = "user-provided-field"
     /\ lastOp.field # S0)
        => LET v == frontmatter[lastOp.file][lastOp.field]
           IN  /\ v.type # "undefined" => lastOp.id = String(v)
               /\ lastOp.id = S0 => v.type = "undefined"

\* C12: under the user-field strategy a resolve of a document whose metadata lacks the
\* field returns empty and writes nothing, while a document that has the field resolves
\* to it; and a handler that continues with an empty identifier (an edit, an open, a
\* command) changes neither the Position Table, durable storage, the debounce timer,
\* the restoration set, the pending restorations, any metadata nor the cursor.
C12_UnresolvableInactive ==
    /\ [](lastOp.act = "resolve" /\ settings.identifierSource = "user-provided-field"
            => LET v == frontmatter[lastOp.file][lastOp.field]
               IN  /\ v.type = "undefined" => (lastOp.id = S0 /\ ~lastOp.wrote)
                   /\ Truthy(v) => lastOp.id = String(v))
    /\ [][\A t \in BagToSet(tasks) :
            (t.pc = "ret" /\ t.id = S0 /\ tasks' = tasks (-) SetToBag({t}))
                => UNCHANGED <<settings, disk, timeout, hasBeenRestoredInCurrentSession,
                               timers, frontmatter, cursor>>]_vars

\* C12 witness: under the user-field strategy an edit of an included note without the
\* field has come back with an empty identifier and stored nothing, while the table
\* holds the position of a note that has the field.
C12_Witness ==
    /\ lastOp.act = "unsaved"
    /\ settings.identifierSource = "user-provided-field"
    /\ getCurrentIdName(settings) # S0
    /\ isFileIncluded(lastOp.file, settings.includedFolders)
    /\ frontmatter[lastOp.file][UserField].type = "undefined"
    /\ \E f \in Files : /\ Truthy(frontmatter[f][UserField])
                        /\ String(frontmatter[f][UserField]) \in DOMAIN table

\* the active strategy reads a metadata field and no name is configured for it
NameMissing == settings.identifierSource # "file-path" /\ getCurrentIdName(settings) = S0

\* C13: while the active strategy is generated or user-field and its field name is
\* empty, every open event, edit event and command resolves to the empty identifier
\* without a metadata transaction (nothing is left waiting on processFrontMatter), and
\* changes neither the Position Table, durable storage, the restoration set, the
\* pending restorations, any metadata nor, by the plugin, the cursor.
C13_EmptyNameInactive ==
    [][(NameMissing /\ HandlerStep) =>
            /\ UNCHANGED <<settings, disk, timeout, hasBeenRestoredInCurrentSession,
                           frontmatter, tasks, timers>>
            /\ lastOp'.id = S0
            /\ ~lastOp'.moved]_vars

\* C13 witness: with no field name configured, an edit of an included note was
\* handled and nothing was stored.
C13_Witness ==
    /\ NameMissing
    /\ lastOp.act = "unsaved"
    /\ isFileIncluded(lastOp.file, settings.includedFolders)
    /\ tasks = EmptyBag
    /\ table = EmptyTable

\* C14: when the host's metadata transaction fails during identifier resolution, the
\* resolve returns empty and the open or edit handler ends normally: no handler ends
\* with the error.
C14_FailureIsSilent == lastOp.act # "rejected"

\* C15: the debounced persister hands the settings to durable storage exactly on a
\* Position Table mutation that arrives while no debounce timer is pending, and not on
\* one that arrives while the timer is pending; so any two of its flushes lie at least
\* DEBOUNCE_SAVE_DELAY (2000 ms) apart.
C15_LeadingEdgeOncePerWindow ==
    /\ [][lastOp'.act = "save" =>
            /\ timeout'
            /\ IF timeout
               THEN disk' = disk /\ clock'.flushes = clock.flushes
               ELSE disk' = settings' /\ clock'.flushes = Append(clock.flushes, clock.now)]_vars
    /\ [](\A i, j \in DOMAIN clock.flushes :
            i < j => clock.flushes[j] - clock.flushes[i] >= DEBOUNCE_SAVE_DELAY)

\* C15 witness: after two flushes a mutation arrived while the timer was pending and
\* was not flushed.
C15_Witness ==
    /\ lastOp.act = "save"
    /\ Len(clock.flushes) >= 2
    /\ disk # settings
    /\ timeout

\* C16: when the settings panel is closed, durable storage holds the settings with the
\* current Position Table, whatever the state of the debounce timer.
C16_HideFlushes == lastOp.act = "hide" => disk = settings

\* the document f is in scope and, by the host's metadata cache, carries the identifier
\* id under the active strategy and field name
Carries(f, id) ==
    /\ isFileIncluded(f, settings.includedFolders)
    /\ IF settings.identifierSource = "file-path" THEN id = f
       ELSE LET idName == getCurrentIdName(settings)
            IN  /\ idName # S0
                /\ Truthy(cache[f][idName])
                /\ id = String(cache[f][idName])

\* C17: a cleanup run deletes exactly the Position Table keys that no enumerable
\* in-scope document carries under the active strategy and field name (keys saved
\* under an earlier strategy among them), leaves every other key with its value,
\* reports the number of keys deleted, and changes no other setting.
C17_CleanupDeletesExactlyInvalid ==
    [][lastOp'.act = "cleanup" =>
        /\ \A k \in DOMAIN table :
                k \in DOMAIN table' <=> \E f \in Files : Carries(f, k)
        /\ \A k \in DOMAIN table' : k \in DOMAIN table /\ table'[k] = table[k]
        /\ lastOp'.cleanedCount = Cardinality(DOMAIN table \ DOMAIN table')
        /\ settings' = [settings EXCEPT !.cursorPosition = table']]_vars

\* C17 witness: under the file-path strategy a cleanup has deleted the one entry saved
\* under the user-field strategy and kept the entry of the note's path.
C17_Witness ==
    /\ lastOp.act = "cleanup"
    /\ lastOp.cleanedCount = 1
    /\ settings.identifierSource = "file-path"
    /\ FolderNote \in DOMAIN table
    /\ String(frontmatter[FolderNote][UserField]) \notin DOMAIN table

\* what getUniqueIdentifier(f, false) returns for f, from the note's metadata as it is
Resolvable(f) ==
    IF ResolvesAtOnce(settings) THEN IdAtOnce(f, settings)
    ELSE FrontMatterCallback(frontmatter[f], getCurrentIdName(settings),
                             settings.identifierSource, FALSE, 0).id

\* C18: a cleanup run never deletes an entry whose key is the identifier that a resolve
\* with createIfMissing=false returns at that moment for some enumerable in-scope
\* document, also right after an edit has minted that identifier.
C18_CleanupKeepsResolvable ==
    [][lastOp'.act = "cleanup" =>
        \A f \in Files :
            (/\ isFileIncluded(f, settings.includedFolders)
             /\ Resolvable(f) # S0
             /\ Resolvable(f) \in DOMAIN table)
                => Resolvable(f) \in DOMAIN table']_vars

\* the rules in force: the lines of the setting, trimmed, the blank ones dropped
Rules == IncludedFolders(settings.includedFolders)

\* path is name, a separator, and a remainder without a separator
DirectChild(path, name) ==
    \E i \in 1..Len(path) :
        /\ SubSeq(path, 1, i) = name \o <<"/">>
        /\ \A j \in (i + 1)..Len(path) : path[j] # "/"

\* C19: for every path and every rule list that has the all-wildcard rule /* at any
\* position, isFileIncluded returns true, whatever the other rules are.
C19_WildcardIncludesAll ==
    (/\ lastOp.act = "isFileIncluded"
     /\ \E i \in 1..Len(Rules) : Rules[i] = <<"/", "*">>)
        => lastOp.result

\* C19 witness: the wildcard is the second rule, after a rule that does not match the
\* path asked about.
C19_Witness ==
    /\ lastOp.act = "isFileIncluded"
    /\ Rules = << <<"F", "2">>, <<"/", "*">> >>
    /\ lastOp.file = DeepNote
    /\ lastOp.result

\* C20: for a rule list that is the single exact-folder rule name (not /, not ending
\* in /*), isFileIncluded(path) is true iff path is name, "/", and a remainder without
\* "/"; with the rule F: F/a is included, F/s/a and F2/a are not.
C20_ExactFolderDirectChildren ==
    (/\ lastOp.act = "isFileIncluded"
     /\ Len(Rules) = 1
     /\ Rules[1] # <<"/">>
     /\ ~EndsWith(Rules[1], <<"/", "*">>))
        => /\ lastOp.result <=> DirectChild(lastOp.file, Rules[1])
           /\ Rules[1] = <<"F">> => (lastOp.result <=> lastOp.file = FolderNote)

\* C20 witness: under the single rule F the note in the sibling folder F2 was asked
\* about and is not included.
C20_Witness ==
    /\ lastOp.act = "isFileIncluded"
    /\ Rules = << <<"F">> >>
    /\ lastOp.file = SiblingNote
    /\ ~lastOp.result

\* path begins with base and a separator
Below(path, base) == \E i \in 1..Len(path) : SubSeq(path, 1, i) = base \o <<"/">>

\* C21: for a rule list that is the single subtree rule base/* with non-empty base,
\* isFileIncluded(path) is true iff path starts with base and "/"; with the rule F/*:
\* F/a and F/s/a are included, a and F2/a are not.
C21_SubtreeRuleRecursive ==
    (/\ lastOp.act = "isFileIncluded"
     /\ Len(Rules) = 1
     /\ EndsWith(Rules[1], <<"/", "*">>)
     /\ Len(Rules[1]) > 2)
        => /\ lastOp.result <=> Below(lastOp.file, SubSeq(Rules[1], 1, Len(Rules[1]) - 2))
           /\ Rules[1] = <<"F", "/", "*">>
                  => (lastOp.result <=> lastOp.file \in {FolderNote, DeepNote})

\* C21 witness: under the single rule F/* the note in the subfolder F/s is included.
C21_Witness ==
    /\ lastOp.act = "isFileIncluded"
    /\ Rules = << <<"F", "/", "*">> >>
    /\ lastOp.file = DeepNote
    /\ lastOp.result

\* C22: for a rule list that is the single root rule /, isFileIncluded(path) is true
\* iff path has no "/": the top-level note is included, the notes in folders are not.
C22_RootRuleTopLevelOnly ==
    (lastOp.act = "isFileIncluded" /\ Rules = << <<"/">> >>)
        => /\ lastOp.result <=> \A i \in 1..Len(lastOp.file) : lastOp.file[i] # "/"
           /\ lastOp.result <=> lastOp.file = RootNote

\* C22 witness: under the single rule / the note in the folder F is not included.
C22_Witness ==
    /\ lastOp.act = "isFileIncluded"
    /\ Rules = << <<"/">> >>
    /\ lastOp.file = FolderNote
    /\ ~lastOp.result

\* the rules, taken in the order perm
Permuted(perm) == Join([i \in 1..Len(Rules) |-> Rules[perm[i]]])

\* C23: isFileIncluded gives the same result for every permutation of the rule list,
\* and the result is true exactly when some rule, taken alone, matches the path.
C23_RuleOrderIrrelevant ==
    (lastOp.act = "isFileIncluded" /\ Len(Rules) >= 1)
        => /\ \A perm \in Permutations(1..Len(Rules)) :
                  isFileIncluded(lastOp.file, Permuted(perm)) = lastOp.result
           /\ lastOp.result <=> \E i \in 1..Len(Rules) : isFileIncluded(lastOp.file, Rules[i])

\* C23 witness: of two different rules the second one is the one that matches the path.
C23_Witness ==
    /\ lastOp.act = "isFileIncluded"
    /\ Rules = << <<"F", "2">>, <<"F">> >>
    /\ lastOp.file = FolderNote
    /\ lastOp.result

\* C24: under the path strategy a resolve returns the document's path, for every
\* document and either value of createIfMissing, and neither it nor anything else done
\* under that strategy writes a document's metadata or mints an identifier.
C24_PathStrategyNoMetadata ==
    /\ [](lastOp.act = "resolve" /\ settings.identifierSource = "file-path"
            => lastOp.id = lastOp.file /\ ~lastOp.wrote)
    /\ [][settings.identifierSource = "file-path"
            => UNCHANGED <<frontmatter, writes, nextUUID>>]_vars

\* C24 witness: under the path strategy a resolve with createIfMissing=true of a note
\* without the generated field has returned the note's path and left the field absent.
C24_Witness ==
    /\ lastOp.act = "resolve"
    /\ settings.identifierSource = "file-path"
    /\ lastOp.create
    /\ lastOp.id = FolderNote
    /\ frontmatter[FolderNote][GeneratedField].type = "undefined"

\* C25: a key of the Position Table stays in the table through every open event, edit
\* event, command, settings change, restoration and asynchronous step; only a cleanup
\* run removes keys.
C25_KeysStayUnlessCleanup ==
    [][lastOp'.act # "cleanup" => DOMAIN table \subseteq DOMAIN table']_vars

\* C25 witness: an edit has added a key to a table that had one, and both are there.
C25_Witness ==
    /\ lastOp.act = "save"
    /\ lastOp.id \notin DOMAIN disk.cursorPosition
    /\ DOMAIN disk.cursorPosition # {}
    /\ DOMAIN disk.cursorPosition \subseteq DOMAIN table

\* C26: the command, run on a file out of scope, ends at once; otherwise, with the
\* identifier a resolve without creation gives for the file, it sets the cursor to
\* the stored (line, ch) iff the identifier is non-empty, a position is stored for it
\* and the stored line is not beyond the editor's last line, and else leaves the
\* cursor where it is. It never changes the restoration set, the pending
\* restorations, the Position Table, durable storage or any metadata, and it is not
\* held back by the restoration set.
C26_CommandMovesIffStored ==
    /\ [](\A w \in writes : w.via # "command")
    /\ [][lastOp'.act \in {"goto", "command-closed"} =>
            /\ UNCHANGED <<settings, disk, timeout, hasBeenRestoredInCurrentSession,
                           frontmatter, timers>>
            /\ lastOp'.act = "command-closed" =>
                    /\ ~isFileIncluded(activeFile, settings.includedFolders)
                    /\ cursor' = cursor
            /\ lastOp'.act = "goto" =>
                    /\ lastOp'.moved <=> /\ lastOp'.id # S0
                                         /\ lastOp'.id \in DOMAIN table
                                         /\ table[lastOp'.id].line <= lastLine[editorFile]
                    /\ cursor' = IF lastOp'.moved THEN table[lastOp'.id] ELSE cursor
                    /\ nEvents' # nEvents =>
                            /\ isFileIncluded(activeFile, settings.includedFolders)
                            /\ lastOp'.id = Resolvable(activeFile)]_vars

\* C26 witness: the command has moved the cursor to the stored position of a document
\* whose identifier is already in the restoration set.
C26_Witness ==
    /\ lastOp.act = "goto"
    /\ lastOp.moved
    /\ lastOp.id \in hasBeenRestoredInCurrentSession
    /\ cursor = table[lastOp.id]

\* C27: when the document whose open event scheduled a restoration is not the active
\* document at the time the restoration fires, the restoration moves no cursor.
C27_NoMoveWhenNotActive ==
    (lastOp.act = "restore" /\ lastOp.file # activeFile) => ~lastOp.moved

\* C28: the position a restoration applies is never one that an edit delivered after
\* the restoration's open event wrote. (Under the path strategy an edit writes its
\* entry in the very step it is delivered, so an entry of a path that differs at the
\* firing from what it was at the scheduling was written by an edit that followed the
\* open.)
C28_RestoreBeforeLaterEdit ==
    (lastOp.act = "restore" /\ lastOp.moved /\ lastOp.id = lastOp.file)
        => ~lastOp.rewritten

\* a key that uuidv1 has produced
IsToken(k) == k # S0 /\ Head(k) = "#"

\* C29: under the generated strategy, with several edit-triggered resolutions of one
\* document in flight, each metadata transaction is one atomic step: one token is
\* minted per document field, every creating resolution returns the token the field
\* holds, and every token that is a key of the Position Table is the token of a
\* document's field, so the table gains one key for the document.
C29_OneTokenPerDocument ==
    /\ nextUUID = Cardinality({ <<w.file, w.field>> : w \in writes })
    /\ (/\ lastOp.act = "resolve"
        /\ lastOp.create
        /\ settings.identifierSource = "plugin-generated-UUID")
           => /\ lastOp.id # S0
              /\ frontmatter[lastOp.file][lastOp.field] = Str(lastOp.id)
              /\ lastOp.id = known[lastOp.file][lastOp.field]
    /\ \A k \in DOMAIN table :
            IsToken(k) => \E f \in Files, n \in FieldNames : frontmatter[f][n] = Str(k)

\* C29 witness: two edit-triggered resolutions of one note that lacked the field have
\* both come back, with the one token that was minted.
C29_Witness ==
    /\ lastOp.act = "resolve"
    /\ lastOp.create
    /\ ~lastOp.wrote
    /\ nextUUID = 1
    /\ \E t \in BagToSet(tasks) :
            /\ t.kind = "edit"
            /\ t.pc = "ret"
            /\ t.id = uuidv1(1)
            /\ CopiesIn(t, tasks) = 2

\* C30: under the generated strategy, once a document's metadata holds a value in the
\* configured field, whatever the value, no resolve changes or replaces it: the field
\* is written only when it is absent.
C30_PresentFieldNeverReplaced ==
    [][settings.identifierSource = "plugin-generated-UUID" =>
        \A f \in Files :
            frontmatter[f][GeneratedField].type # "undefined"
                => frontmatter'[f][GeneratedField] = frontmatter[f][GeneratedField]]_vars

\* C31: once a burst of edits is over (the debounce timer has run out and no edit
\* arms it again), durable storage eventually holds, and goes on holding, the Position
\* Table that memory holds.
C31_BurstEventuallyPersisted ==
    <>[](~timeout) => <>[](disk.cursorPosition = table)

\* C32: every write of the settings to durable storage is made by the debounced
\* persister: durable storage changes only in a step in which saveLastEditLocation has
\* stored a position and called debouncedSave.
C32_PersisterIsSoleWriter ==
    [][disk' # disk => lastOp'.act = "save"]_vars

\* C33: a scheduled restoration is never cancelled. An open that passes the gates
\* puts its callback among the pending ones; a pending callback stays pending through
\* every other open, edit, command, settings change and cleanup, and leaves only by
\* firing, after which its identifier is in the restoration set; and every pending
\* callback does fire.
C33_ScheduledAlwaysFires ==
    /\ [][/\ lastOp'.act = "schedule" =>
                (Len(timers') = Len(timers) + 1 /\ timers'[Len(timers')].id = lastOp'.id)
          /\ lastOp'.act = "restore" =>
                /\ \E j \in 1..Len(timers) :
                        /\ timers[j].id = lastOp'.id
                        /\ timers' = SubSeq(timers, 1, j - 1) \o SubSeq(timers, j + 1, Len(timers))
                /\ lastOp'.id \in hasBeenRestoredInCurrentSession'
          /\ lastOp'.act # "restore" =>
                /\ Len(timers') >= Len(timers)
                /\ SubSeq(timers', 1, Len(timers)) = timers]_vars
    /\ []<>(timers = <<>>)

\* C33 witness: a restoration has fired although a cleanup run removed its
\* identifier's entry after the open that scheduled it.
C33_Witness ==
    /\ lastOp.act = "restore"
    /\ lastOp.rewritten
    /\ lastOp.id \notin DOMAIN table
    /\ lastOp.id \in hasBeenRestoredInCurrentSession

\* C34: a change of a setting (the strategy, either field name, the rules or the
\* restore delay) changes that one setting and durable storage, and nothing else: the
\* Position Table keeps every entry with its value, and the restoration set, the
\* pending restorations and the resolutions in flight stay as they are.
C34_SettingChangeKeepsTable ==
    [][lastOp'.act = "setting" =>
        /\ table' = table
        /\ hasBeenRestoredInCurrentSession' = hasBeenRestoredInCurrentSession
        /\ UNCHANGED <<timers, tasks, frontmatter, cursor>>
        /\ Cardinality({ n \in DOMAIN settings : settings'[n] # settings[n] }) = 1]_vars

\* C34 witness: the user has changed the name of the user's field while the table
\* holds the entry saved under the old name's value and that identifier is in the
\* restoration set; the note no longer resolves to it.
C34_Witness ==
    /\ lastOp.act = "setting"
    /\ settings.identifierSource = "user-provided-field"
    /\ settings.userProvidedIdName # UserField
    /\ <<"x">> \in DOMAIN table
    /\ <<"x">> \in hasBeenRestoredInCurrentSession
    /\ Resolvable(FolderNote) # <<"x">>

\* a step of the open path: an open event (or the startup handling) is delivered, its
\* identifier is resolved, its handler goes on after the resolution, or its restoration
\* fires
OpenPathStep ==
    \/ activeFile' # activeFile
    \/ ready' # ready
    \/ \E t \in BagToSet(tasks) :
            t.kind = "open" /\ tasks' = tasks (-) SetToBag({t})
    \/ \E t \in BagToSet(tasks) :
            t.kind = "open" /\ t.pc = "fm" /\ CopiesIn(t, tasks') < CopiesIn(t, tasks)
    \/ lastOp'.act = "restore"

\* C35: no step of the open path changes the Position Table (or any setting), writes
\* to durable storage or arms the debounced persister, whether the restoration moves
\* the cursor, finds the stored line out of range, or finds no entry; an entry that
\* is out of range is in the table, as it was, after the restoration has fired.
C35_OpenPathReadsOnly ==
    [][OpenPathStep => UNCHANGED <<settings, disk, timeout>>]_vars

\* C35 witness: a restoration has fired and skipped an entry whose line lies beyond
\* the document's last line; the entry is there as it was when the note was opened.
C35_Witness ==
    /\ lastOp.act = "restore"
    /\ ~lastOp.moved
    /\ ~lastOp.rewritten
    /\ lastOp.file = activeFile
    /\ lastOp.id \in DOMAIN table
    /\ table[lastOp.id].line > lastLine[activeFile]
    /\ disk.cursorPosition = table

\* C36: with several documents in play, a restoration applies a document's position
\* to that document's editor only. (Under the path strategy the identifier is the
\* document's path, and its entry is what the most recent edit of that document
\* recorded; so a restoration that moves the cursor with the entry of a path moves it
\* in the editor of the document at that path.)
C36_RestoresInOwnDocument ==
    (lastOp.act = "restore" /\ lastOp.moved /\ lastOp.id \in Files)
        => editorFile = lastOp.id

\* C37: a cleanup run while the rule list is empty, or while the active strategy
\* reads a metadata field and no field name is set, finds no valid identifier: it
\* removes every entry of the Position Table and reports the number of entries the
\* table had.
C37_CleanupWithNothingValid ==
    [][(lastOp'.act = "cleanup" /\ (RulesEmpty \/ NameMissing)) =>
        /\ ValidIdentifiers(settings, cache) = {}
        /\ table' = EmptyTable
        /\ lastOp'.cleanedCount = Cardinality(DOMAIN table)]_vars

\* C37 witness: with rules that include every note but no name for the user's field,
\* a cleanup has removed the table's one entry and reported one.
C37_Witness ==
    /\ lastOp.act = "cleanup"
    /\ NameMissing
    /\ ~RulesEmpty
    /\ lastOp.cleanedCount = 1
    /\ table = EmptyTable
    /\ \E f \in Files : Truthy(cache[f][UserField])

\* C38: in the earlier version, while the master switch is off no step of the plugin
\* changes the Position Table, writes a document's metadata or moves a cursor.
C38_DisabledDoesNothing ==
    [][~settings.isPluginEnabled =>
        /\ table' = table
        /\ frontmatter' = frontmatter
        /\ ~lastOp'.moved]_vars

====
